---- MODULE Spec2Model ----
(***************************************************************************)
(* Model of pykernels/regular.py: the catalog of kernel classes, their     *)
(* constructors, their _compute routines and dim().                        *)
(*                                                                         *)
(* Numbers.  Feature values and constructor parameters are small integers. *)
(* Every quotient the code forms is kept as an exact fraction (Rat), with   *)
(* the IEEE outcomes of a zero divisor (nan, +-inf) kept apart from the     *)
(* finite values.  The transcendental elementwise functions (np.exp,        *)
(* np.sqrt, np.log, ** with a real exponent) are kept as terms over their   *)
(* exact arguments: equal terms denote equal floating point results (the    *)
(* converse is not used: nothing here is refuted by two terms differing).   *)
(* float(n) of a small integer n is numerically n.                          *)
(***************************************************************************)
EXTENDS Integers, Sequences, FiniteSets, TLC

\* ------------------------------------------------------------------ bounds
MaxVal == 2
MaxParam == 2

\* ------------------------------------------------------------- arithmetic
None == <<>>

Some(x) == <<x>>

Abs(x) == IF x < 0 THEN -x ELSE x

Sign(x) == IF x < 0 THEN -1 ELSE IF x = 0 THEN 0 ELSE 1

Minimum(x, y) == IF x < y THEN x ELSE y

RECURSIVE GCD(_, _)
GCD(a, b) == IF b = 0 THEN a ELSE GCD(b, a % b)

RECURSIVE Pow(_, _)
Pow(b, e) == IF e = 0 THEN 1 ELSE b * Pow(b, e - 1)

\* a / b of two integers as numpy's true division: a reduced fraction, and
\* for b = 0 the values nan (0/0) and +-inf (a/0), written with den = 0.
Div(a, b) ==
    IF b = 0 THEN [num |-> Sign(a), den |-> 0]
    ELSE LET g == GCD(Abs(a), Abs(b))
         IN  [num |-> Sign(b) * (a \div g), den |-> Abs(b) \div g]

FromInt(a) == [num |-> a, den |-> 1]

NaN == [num |-> 0, den |-> 0]

IsFinite(p) == p.den # 0

Add(p, q) ==
    IF IsFinite(p) /\ IsFinite(q) THEN Div(p.num * q.den + q.num * p.den, p.den * q.den)
    ELSE IF p = NaN \/ q = NaN THEN NaN
    ELSE IF ~IsFinite(p) /\ ~IsFinite(q) THEN (IF p = q THEN p ELSE NaN)
    ELSE IF IsFinite(p) THEN q ELSE p

Neg(p) == [num |-> -p.num, den |-> p.den]

Scale(k, p) ==
    IF IsFinite(p) THEN Div(k * p.num, p.den)
    ELSE IF k = 0 THEN NaN ELSE [num |-> Sign(k) * p.num, den |-> 0]

Recip(p) ==
    IF IsFinite(p) THEN Div(p.den, p.num)
    ELSE IF p = NaN THEN NaN ELSE FromInt(0)

\* an elementwise transcendental function applied to exact arguments
Term(f, a, b) == [f |-> f, a |-> a, b |-> b]

\* ---------------------------------------------------------------- matrices
\* feature values: a negative one, zero and positive ones
Values == (-1) .. MaxVal

Params == 1 .. MaxParam

Rows(m) == Len(m)

Cols(m) == Len(m[1])

AnyNegative(m) == \E i \in 1 .. Rows(m) : \E k \in 1 .. Cols(m) : m[i][k] < 0

Zeros(n1, n2, zero) == [i \in 1 .. n1 |-> [j \in 1 .. n2 |-> zero]]

\* what a call hands back: a similarity matrix, or an exception and nothing.
\* acc counts the per-column accumulations (kernel += ...) that were executed.
Returned(kernel, acc) == [err |-> "none", kernel |-> kernel, acc |-> acc]

Raised(err, acc) == [err |-> err, kernel |-> None, acc |-> acc]

\* ------------------------------------------------ pairwise squared distance
RECURSIVE DotRows(_, _, _)
DotRows(a, b, k) == IF k = 0 THEN 0 ELSE DotRows(a, b, k - 1) + a[k] * b[k]

SqNorm(a) == DotRows(a, a, Len(a))

\* D[i][j] = ||a_i||^2 + ||b_j||^2 - 2 a_i . b_j ; the matrix product is
\* defined only for equal column counts.
euclidean_dist_matrix(data_1, data_2) ==
    IF Cols(data_1) # Cols(data_2) THEN Raised("shape", 0)
    ELSE Returned([i \in 1 .. Rows(data_1) |-> [j \in 1 .. Rows(data_2) |->
                     SqNorm(data_1[i]) + SqNorm(data_2[j])
                       - 2 * DotRows(data_1[i], data_2[j], Cols(data_1))]], 0)

\* ------------------------------------------------------------ constructors
\* an optional argument is None or Some(value)
Exponential(sigma) ==
    [cls |-> "Exponential",
     _sigma |-> IF sigma = None THEN None ELSE Some(2 * Pow(sigma[1], 2))]

\* the constructor is not overridden
Laplacian_inherited(sigma) ==
    [cls |-> "Laplacian",
     _sigma |-> IF sigma = None THEN None ELSE Some(2 * Pow(sigma[1], 2))]

Laplacian(sigma) == [cls |-> "Laplacian", _sigma |-> sigma]

RationalQuadratic(c) == [cls |-> "RationalQuadratic", _c |-> c]

InverseMultiquadratic(c) == [cls |-> "InverseMultiquadratic", _c |-> Pow(c, 2)]

Cauchy(sigma) ==
    [cls |-> "Cauchy",
     _sigma |-> IF sigma = None THEN None ELSE Some(Pow(sigma[1], 2))]

TStudent(degree) == [cls |-> "TStudent", _d |-> degree]

ANOVA(sigma, d) == [cls |-> "ANOVA", _sigma |-> sigma, _d |-> d]

AdditiveChi2 == [cls |-> "AdditiveChi2"]

Chi2(gamma) == [cls |-> "Chi2", _gamma |-> gamma]

Min == [cls |-> "Min"]

GeneralizedHistogramIntersection(alpha) ==
    [cls |-> "GeneralizedHistogramIntersection", _alpha |-> alpha]

Log(d) == [cls |-> "Log", _d |-> d]

Power(d) == [cls |-> "Power", _d |-> d]

\* ----------------------------------------------- distance based _compute
\* the default is the sample count, shape[0]
DefaultSigma_rows(data_1) == Rows(data_1)

\* float(data_1.shape[1])
DefaultSigma(data_1) == Cols(data_1)

\* the default goes through the constructor's transform of an explicit sigma
LazySigma_transformed(self, data_1) ==
    IF self._sigma = None
    THEN [self EXCEPT !._sigma = Some(2 * Pow(DefaultSigma(data_1), 2))] ELSE self

\* the default is taken anew at every call
LazySigma_every_call(self, data_1) ==
    [self EXCEPT !._sigma = Some(DefaultSigma(data_1))]

\* if self._sigma is None: self._sigma = float(data_1.shape[1])
LazySigma(self, data_1) ==
    IF self._sigma = None
    THEN [self EXCEPT !._sigma = Some(DefaultSigma(data_1))] ELSE self

\* the elementwise formula each distance based class applies to dists_sq
Exponential_formula(self, D) == Term("exp(-sqrt(a)/b)", D, self._sigma[1])

Cauchy_formula(self, D) == Recip(Add(FromInt(1), Div(D, self._sigma[1])))

RationalQuadratic_formula(self, D) == Add(FromInt(1), Neg(Div(D, D + self._c)))

InverseMultiquadratic_formula(self, D) == Term("1/sqrt(a)", D + self._c, 0)

TStudent_formula(self, D) == Term("1/(1+sqrt(a)**b)", D, self._d)

Log_formula(self, D) == Term("-log(a)", Add(Div(Pow(D, self._d), 2), FromInt(1)), 0)

Power_formula(self, D) == Neg(Div(Pow(D, self._d), 2))

DistanceFormula(self, D) ==
    CASE self.cls \in {"Exponential", "Laplacian"} -> Exponential_formula(self, D)
      [] self.cls = "Cauchy" -> Cauchy_formula(self, D)
      [] self.cls = "RationalQuadratic" -> RationalQuadratic_formula(self, D)
      [] self.cls = "InverseMultiquadratic" -> InverseMultiquadratic_formula(self, D)
      [] self.cls = "TStudent" -> TStudent_formula(self, D)
      [] self.cls = "Log" -> Log_formula(self, D)
      [] self.cls = "Power" -> Power_formula(self, D)

\* dists_sq = euclidean_dist_matrix(data_1, data_2); return <formula>, the
\* formula reading the instance as it is then; a failure is passed on
OnDistances(self, data_1, data_2) ==
    LET dists_sq == euclidean_dist_matrix(data_1, data_2)
    IN  IF dists_sq.err # "none" THEN dists_sq
        ELSE Returned([i \in 1 .. Rows(data_1) |-> [j \in 1 .. Rows(data_2) |->
                         DistanceFormula(self, dists_sq.kernel[i][j])]], 0)

\* Exponential._compute and Cauchy._compute
Lazy_compute(self, data_1, data_2) ==
    LET resolved == LazySigma(self, data_1)
    IN  [self |-> resolved, ret |-> OnDistances(resolved, data_1, data_2)]

\* the _compute of the distance based classes that keep no lazy default
Fixed_compute(self, data_1, data_2) ==
    [self |-> self, ret |-> OnDistances(self, data_1, data_2)]

\* --------------------------------------------------- column-wise _compute
ANOVA_term(self, x, y) == Term("exp(a)**b", (-self._sigma) * Pow(x - y, 2), self._d)

\* the divisor adds column_1 to itself
AdditiveChi2_term_x_twice(x, y) == Div(2 * (x * y), x + x)

AdditiveChi2_term(x, y) == Div(2 * (x * y), x + y)

Chi2_term(x, y) == Div(Pow(x - y, 2), x + y)

Min_term(x, y) == FromInt(Minimum(x, y))

ColumnTerm(self, x, y) ==
    CASE self.cls = "ANOVA" -> ANOVA_term(self, x, y)
      [] self.cls = "AdditiveChi2" -> AdditiveChi2_term(x, y)
      [] self.cls = "Chi2" -> Chi2_term(x, y)
      [] self.cls = "Min" -> Min_term(x, y)

\* kernel += term.  A sum of transcendental terms is kept as the list of its
\* summands in the order they were added; np.zeros starts it at 0.
Accumulate(self, kernel_ij, term) ==
    IF self.cls = "ANOVA" THEN Append(kernel_ij, term) ELSE Add(kernel_ij, term)

ZeroEntry(self) == IF self.cls = "ANOVA" THEN <<>> ELSE FromInt(0)

\* the kernel matrix after the loop body ran for the columns 0 .. d-1
RECURSIVE ColumnLoop(_, _, _, _)
ColumnLoop(self, data_1, data_2, d) ==
    IF d = 0 THEN Zeros(Rows(data_1), Rows(data_2), ZeroEntry(self))
    ELSE LET kernel == ColumnLoop(self, data_1, data_2, d - 1)
         IN  [i \in 1 .. Rows(data_1) |-> [j \in 1 .. Rows(data_2) |->
                Accumulate(self, kernel[i][j],
                           ColumnTerm(self, data_1[i][d], data_2[j][d]))]]

\* for d in range(data_1.shape[1]): data_2[:, d] is an IndexError once d
\* reaches data_2.shape[1]; columns of data_2 beyond data_1's are never read.
ColumnWise(self, data_1, data_2) ==
    IF Cols(data_1) > Cols(data_2) THEN Raised("index", Cols(data_2))
    ELSE Returned(ColumnLoop(self, data_1, data_2, Cols(data_1)), Cols(data_1))

\* the check forgets data_2
RequirePositive_data_1_only(self, data_1, data_2) ==
    IF AnyNegative(data_1) THEN Raised("domain", 0)
    ELSE ColumnWise(self, data_1, data_2)

\* if np.any(data_1 < 0) or np.any(data_2 < 0): raise Exception(...)
RequirePositive(self, data_1, data_2) ==
    IF AnyNegative(data_1) \/ AnyNegative(data_2) THEN Raised("domain", 0)
    ELSE ColumnWise(self, data_1, data_2)

ANOVA_compute(self, data_1, data_2) ==
    [self |-> self, ret |-> ColumnWise(self, data_1, data_2)]

AdditiveChi2_compute(self, data_1, data_2) ==
    [self |-> self, ret |-> RequirePositive(self, data_1, data_2)]

\* np.exp(-self._gamma * kernel); exp of nan is nan
Chi2_exp(self, q) ==
    LET a == Scale(-self._gamma, q) IN IF a = NaN THEN NaN ELSE Term("exp(a)", a, 0)

Chi2_compute(self, data_1, data_2) ==
    LET summed == RequirePositive(self, data_1, data_2)
    IN  [self |-> self,
         ret |-> IF summed.err # "none" THEN summed
                 ELSE Returned([i \in 1 .. Rows(data_1) |-> [j \in 1 .. Rows(data_2) |->
                                  Chi2_exp(self, summed.kernel[i][j])]], summed.acc)]

Min_compute(self, data_1, data_2) ==
    [self |-> self, ret |-> RequirePositive(self, data_1, data_2)]

\* np.abs(data)**self._alpha
AbsPow(data, alpha) ==
    [i \in 1 .. Rows(data) |-> [k \in 1 .. Cols(data) |-> Pow(Abs(data[i][k]), alpha)]]

\* the absolute value is left out
GeneralizedHistogramIntersection_compute_no_abs(self, data_1, data_2) ==
    [self |-> self,
     ret |-> Min_compute(Min,
                         [i \in 1 .. Rows(data_1) |-> [k \in 1 .. Cols(data_1) |->
                            Pow(data_1[i][k], self._alpha)]],
                         [i \in 1 .. Rows(data_2) |-> [k \in 1 .. Cols(data_2) |->
                            Pow(data_2[i][k], self._alpha)]]).ret]

\* Min()._compute(np.abs(data_1)**self._alpha, np.abs(data_2)**self._alpha)
GeneralizedHistogramIntersection_compute(self, data_1, data_2) ==
    [self |-> self,
     ret |-> Min_compute(Min, AbsPow(data_1, self._alpha),
                         AbsPow(data_2, self._alpha)).ret]

\* ---------------------------------------------------------------- dispatch
\* self._compute(data_1, data_2): the instance afterwards and what the call gave
_compute(self, data_1, data_2) ==
    CASE self.cls \in {"Exponential", "Laplacian", "Cauchy"} ->
            Lazy_compute(self, data_1, data_2)
      [] self.cls \in {"RationalQuadratic", "InverseMultiquadratic", "TStudent",
                       "Log", "Power"} ->
            Fixed_compute(self, data_1, data_2)
      [] self.cls = "ANOVA" -> ANOVA_compute(self, data_1, data_2)
      [] self.cls = "AdditiveChi2" -> AdditiveChi2_compute(self, data_1, data_2)
      [] self.cls = "Chi2" -> Chi2_compute(self, data_1, data_2)
      [] self.cls = "Min" -> Min_compute(self, data_1, data_2)
      [] self.cls = "GeneralizedHistogramIntersection" ->
            GeneralizedHistogramIntersection_compute(self, data_1, data_2)

\* Cauchy declared like the classes after it
dim_Cauchy_unknown(self) ==
    IF self.cls \in {"Exponential", "Laplacian", "InverseMultiquadratic"}
    THEN "inf" ELSE "None"

\* np.inf or None
dim(self) ==
    IF self.cls \in {"Exponential", "Laplacian", "InverseMultiquadratic", "Cauchy"}
    THEN "inf" ELSE "None"

\* a constructor call: the class and its arguments
Construct(args) ==
    CASE args.cls = "Exponential" -> Exponential(args.sigma)
      [] args.cls = "Laplacian" -> Laplacian(args.sigma)
      [] args.cls = "RationalQuadratic" -> RationalQuadratic(args.c)
      [] args.cls = "InverseMultiquadratic" -> InverseMultiquadratic(args.c)
      [] args.cls = "Cauchy" -> Cauchy(args.sigma)
      [] args.cls = "TStudent" -> TStudent(args.degree)
      [] args.cls = "ANOVA" -> ANOVA(args.sigma, args.d)
      [] args.cls = "AdditiveChi2" -> AdditiveChi2
      [] args.cls = "Chi2" -> Chi2(args.gamma)
      [] args.cls = "Min" -> Min
      [] args.cls = "GeneralizedHistogramIntersection" ->
            GeneralizedHistogramIntersection(args.alpha)
      [] args.cls = "Log" -> Log(args.d)
      [] args.cls = "Power" -> Power(args.d)

OptParams == {None} \cup {Some(p) : p \in Params}

LazyArgs == [cls : {"Exponential", "Laplacian", "Cauchy"}, sigma : OptParams]

ConstructorArgs ==
    LazyArgs
    \cup [cls : {"RationalQuadratic", "InverseMultiquadratic"}, c : Params]
    \cup [cls : {"TStudent"}, degree : Params]
    \cup [cls : {"ANOVA"}, sigma : Params, d : Params]
    \cup [cls : {"AdditiveChi2", "Min"}]
    \cup [cls : {"Chi2"}, gamma : Params]
    \cup [cls : {"GeneralizedHistogramIntersection"}, alpha : Params]
    \cup [cls : {"Log", "Power"}, d : Params]

\* -------------------------------------------------------------------- state
VARIABLES
    pool,        \* the caller's two feature matrices
    ctor,        \* the constructor call that made the instance
    self,        \* the kernel instance (its attributes)
    data_1,      \* arguments of the latest compute call
    data_2,
    ret,         \* what the latest compute call gave
    dim_ret,     \* what dim() returned, if it was the latest call
    first_cols,  \* column count of data_1 in the first compute call, if any
    pc,          \* two threads sharing the instance: where each is in _compute
    thread_ret,  \* what each thread's call gave
    assigned     \* the threads that executed the assignment of the default

vars == <<pool, ctor, self, data_1, data_2, ret, dim_ret, first_cols,
          pc, thread_ret, assigned>>

Threads == {1, 2}

\* the column counts of the caller's matrices
ColumnCounts == {1, 2}

RowVectors == UNION {[1 .. c -> Values] : c \in ColumnCounts}

Constructed(args) ==
    /\ ctor = args
    /\ self = Construct(args)
    /\ data_1 = None
    /\ data_2 = None
    /\ ret = Raised("not called", 0)
    /\ dim_ret = "not called"
    /\ first_cols = None
    /\ thread_ret = [t \in Threads |-> Raised("not called", 0)]
    /\ assigned = {}

\* two one-sample matrices, of any two column counts
AnyPool == \E a, b \in RowVectors : pool = <<(<<a>>), (<<b>>)>>

\* two matrices of one column count, of two samples and of one
ValidPool ==
    \E a, b \in RowVectors : Len(a) = Len(b) /\ pool = <<(<<a, b>>), (<<b>>)>>

NoThreads == pc = [t \in Threads |-> "idle"]

Init == AnyPool /\ NoThreads /\ \E args \in ConstructorArgs : Constructed(args)

InitValid == ValidPool /\ NoThreads /\ \E args \in ConstructorArgs : Constructed(args)

\* an instance with sigma unset, shared by two threads about to call compute
InitRace ==
    /\ ValidPool
    /\ pc = [t \in Threads |-> "line 30"]
    /\ \E args \in LazyArgs : args.sigma = None /\ Constructed(args)

Compute(m, n) ==
    LET call == _compute(self, pool[m], pool[n])
    IN  /\ data_1' = pool[m]
        /\ data_2' = pool[n]
        /\ self' = call.self
        /\ ret' = call.ret
        /\ dim_ret' = "not called"
        /\ first_cols' = IF first_cols = None THEN Some(Cols(pool[m])) ELSE first_cols
        /\ UNCHANGED <<pool, ctor, pc, thread_ret, assigned>>

Dim ==
    /\ dim_ret' = dim(self)
    /\ UNCHANGED <<pool, ctor, self, data_1, data_2, ret, first_cols,
                   pc, thread_ret, assigned>>

\* thread 1 calls _compute(pool[1], pool[2]), thread 2 _compute(pool[2], pool[1])
ThreadData_1(t) == pool[t]

ThreadData_2(t) == pool[3 - t]

sequential == <<pool, ctor, data_1, data_2, ret, dim_ret, first_cols>>

\* if self._sigma is None:
CheckNone(t) ==
    /\ pc[t] = "line 30"
    /\ pc' = [pc EXCEPT ![t] = IF self._sigma = None THEN "line 32" ELSE "line 34"]
    /\ UNCHANGED <<sequential, self, thread_ret, assigned>>

\* self._sigma = float(data_1.shape[1])
AssignDefault(t) ==
    /\ pc[t] = "line 32"
    /\ self' = [self EXCEPT !._sigma = Some(DefaultSigma(ThreadData_1(t)))]
    /\ assigned' = assigned \cup {t}
    /\ pc' = [pc EXCEPT ![t] = "line 34"]
    /\ UNCHANGED <<sequential, thread_ret>>

\* dists_sq = euclidean_dist_matrix(data_1, data_2); return <formula of self._sigma>
ReturnFormula(t) ==
    /\ pc[t] = "line 34"
    /\ thread_ret' = [thread_ret EXCEPT ![t] =
          OnDistances(self, ThreadData_1(t), ThreadData_2(t))]
    /\ pc' = [pc EXCEPT ![t] = "done"]
    /\ UNCHANGED <<sequential, self, assigned>>

NextRace == \E t \in Threads : CheckNone(t) \/ AssignDefault(t) \/ ReturnFormula(t)

Next ==
    \/ \E m, n \in {1, 2} : Compute(m, n)
    \/ Dim

Spec == Init /\ [][Next]_vars

SpecValid == InitValid /\ [][Next]_vars

SpecRace == InitRace /\ [][NextRace]_vars

\* ------------------------------------------------------------------- claims
Called == data_1 # None

EqualCols == Cols(data_1) = Cols(data_2)

Negative == AnyNegative(data_1) \/ AnyNegative(data_2)

C3_ShapeMismatchFails == (Called /\ ~EqualCols) => ret.err # "none"

Entries(m) == {m[i][j] : i \in 1 .. Rows(m), j \in 1 .. Cols(m)}

\* C10: every input AdditiveChi2 and Chi2 accept gives a defined value in
\* every entry of the result: no term is a division by x_k + y_k = 0.
C10_AcceptedIsDefined ==
    (Called /\ self.cls \in {"AdditiveChi2", "Chi2"} /\ ret.err = "none") =>
        NaN \notin Entries(ret.kernel)

RECURSIVE SumMinAbs(_, _, _, _)
SumMinAbs(x, y, alpha, k) ==
    IF k = 0 THEN 0
    ELSE SumMinAbs(x, y, alpha, k - 1)
           + Minimum(Pow(Abs(x[k]), alpha), Pow(Abs(y[k]), alpha))

\* C5: GeneralizedHistogramIntersection never fails with a domain error,
\* negative entries included, and on inputs of one column count its entry
\* (i, j) is the sum over k of min(|data_1[i,k]|^alpha, |data_2[j,k]|^alpha).
C5_GeneralizedIntersection ==
    (Called /\ self.cls = "GeneralizedHistogramIntersection") =>
        /\ ret.err # "domain"
        /\ EqualCols =>
             /\ ret.err = "none"
             /\ \A i \in 1 .. Rows(data_1) : \A j \in 1 .. Rows(data_2) :
                  ret.kernel[i][j] =
                    FromInt(SumMinAbs(data_1[i], data_2[j], self._alpha, Cols(data_1)))

C5_Witness ==
    /\ self = GeneralizedHistogramIntersection(1)
    /\ data_1 = <<(<<-1, 2>>)>>
    /\ data_2 = <<(<<1, -1>>)>>
    /\ ret.kernel = <<(<<FromInt(2)>>)>>

InfiniteDim == {"Exponential", "Laplacian", "InverseMultiquadratic", "Cauchy"}

UnknownDim ==
    {"RationalQuadratic", "TStudent", "ANOVA", "AdditiveChi2", "Chi2", "Min",
     "GeneralizedHistogramIntersection", "Log", "Power"}

\* C6: dim() returns the infinite sentinel for Exponential, Laplacian,
\* InverseMultiquadratic and Cauchy and the unknown sentinel for the other
\* classes, whatever calls came before, and leaves the instance as it was
\* (an unresolved lazy default stays unresolved).
C6_DimIsConstant ==
    [][dim_ret' # "not called" =>
         /\ ctor.cls \in InfiniteDim => dim_ret' = "inf"
         /\ ctor.cls \in UnknownDim => dim_ret' = "None"
         /\ ctor.cls \in InfiniteDim \cup UnknownDim
         /\ self' = self
         /\ <<data_1, data_2, ret>>' = <<data_1, data_2, ret>>]_vars

C6_Witness ==
    /\ ctor = [cls |-> "Cauchy", sigma |-> None]
    /\ dim_ret = "inf"
    /\ self._sigma = None

LazyUnset == ctor.cls \in {"Exponential", "Laplacian", "Cauchy"} /\ ctor.sigma = None

\* C2: an instance made with sigma unset has no cached parameter before its
\* first compute call; that call caches the column count of its data_1, and
\* no later call changes it, whatever its column count.  Calling again with
\* the inputs of the latest call gives the same result and the same instance.
C2_LazyDefaultStable ==
    LazyUnset =>
        /\ self._sigma = first_cols
        /\ Called => _compute(self, data_1, data_2) = [self |-> self, ret |-> ret]

C2_Witness ==
    /\ ctor = [cls |-> "Exponential", sigma |-> None]
    /\ first_cols = Some(1)
    /\ Cols(data_1) = 2
    /\ ret.err = "none"
    /\ self._sigma = Some(1)

DefaultTaken == ctor.cls \in {"Exponential", "Cauchy"} /\ ctor.sigma = None /\ Called

Explicit(sigma) == Construct([cls |-> ctor.cls, sigma |-> Some(sigma)])

\* C8 as stated: after the first call on d-column inputs the stored parameter
\* is the one the constructor stores for sigma = d (2*d^2, d^2), and the
\* instance computes what Exponential(sigma=d), Cauchy(sigma=d) compute.
C8_DefaultThroughTransform ==
    DefaultTaken =>
        /\ self._sigma = Explicit(first_cols[1])._sigma
        /\ Cols(data_1) = first_cols[1] =>
             ret = _compute(Explicit(first_cols[1]), data_1, data_2).ret

\* C8 amended: the first call on d-column inputs stores d itself, with no
\* transform: Exponential() then computes exp(-sqrt(D)/d) and Cauchy()
\* 1/(1 + D/d), which is what Exponential(sigma=s) computes for 2*s^2 = d and
\* Cauchy(sigma=s) for s^2 = d.
C8_DefaultStoredUntransformed ==
    DefaultTaken =>
        LET d == first_cols[1]
            D == euclidean_dist_matrix(data_1, data_2)
        IN  /\ self._sigma = Some(d)
            /\ EqualCols =>
                 /\ ret.err = "none"
                 /\ \A i \in 1 .. Rows(data_1) : \A j \in 1 .. Rows(data_2) :
                      ret.kernel[i][j] =
                        IF ctor.cls = "Exponential"
                        THEN Term("exp(-sqrt(a)/b)", D.kernel[i][j], d)
                        ELSE Recip(Add(FromInt(1), Div(D.kernel[i][j], d)))
            /\ \A s \in Params :
                 Explicit(s)._sigma = Some(d) =>
                     ret = _compute(Explicit(s), data_1, data_2).ret

C8_Witness ==
    /\ ctor = [cls |-> "Exponential", sigma |-> None]
    /\ first_cols = Some(2)
    /\ self._sigma = Some(2)
    /\ ret.err = "none"
    /\ data_1 # data_2
    /\ ret = _compute(Exponential(Some(1)), data_1, data_2).ret

ExponentialTwin(inst) == [inst EXCEPT !.cls = "Exponential"]

ComputeStep == dim_ret' = "not called" /\ data_1' # None

\* C9: Laplacian(sigma=s) stores s itself, which is what Exponential(sigma=t)
\* stores when 2*t^2 = s, and Laplacian() stores what Exponential() stores;
\* from then on every compute call of a Laplacian gives the result, and
\* leaves the parameter, that the call gives on the Exponential instance with
\* the same stored parameter.
C9_LaplacianAsExponential ==
    /\ [](ctor.cls = "Laplacian" /\ ~Called =>
            /\ ctor.sigma # None => self._sigma = ctor.sigma
            /\ ctor.sigma = None => ExponentialTwin(self) = Exponential(None)
            /\ \A t \in Params :
                 ctor.sigma = Some(2 * t * t) =>
                     ExponentialTwin(self) = Exponential(Some(t)))
    /\ [][ctor.cls = "Laplacian" /\ ComputeStep =>
            LET e == _compute(ExponentialTwin(self), data_1', data_2')
            IN  ret' = e.ret /\ ExponentialTwin(self') = e.self]_vars

C9_Witness ==
    /\ ctor = [cls |-> "Laplacian", sigma |-> Some(2)]
    /\ ret.err = "none"
    /\ data_1 # data_2
    /\ ret = _compute(Exponential(Some(1)), data_1, data_2).ret

C7_RaceIsBenign ==
    /\ \A t \in Threads :
         pc[t] = "done" =>
             thread_ret[t] =
                 _compute(Construct(ctor), ThreadData_1(t), ThreadData_2(t)).ret
    /\ (\A t \in Threads : pc[t] = "done") =>
         \A t \in Threads :
             self = _compute(Construct(ctor), ThreadData_1(t), ThreadData_2(t)).self

C7_Witness ==
    /\ ctor.cls = "Exponential"
    /\ assigned = Threads
    /\ \A t \in Threads : pc[t] = "done" /\ thread_ret[t].err = "none"
    /\ pool[1][1] # pool[1][2]

====
